---- MODULE Spec2Model ----
(***************************************************************************)
(* Rendezvous between the interpreter thread and the adapter thread of the *)
(* SketchUp Ruby debugger, for its two front-ends:                         *)
(*   - RDIP      (src/DebugServer/UI/RDIP/RDIP.cpp), XML over TCP;         *)
(*   - ConsoleUI (src/DebugServer/UI/Console/Win/ConsoleUI.cpp).           *)
(* A behaviour runs one front-end, chosen in Init (variable fe).           *)
(* XmlSpec follows one call of encodeXml (RDIP.cpp) on its own.            *)
(* Command lines are sequences of one-character strings, and the           *)
(* dispatchers' std::regex chains are evaluated on them.                   *)
(***************************************************************************)
EXTENDS Integers, Sequences, FiniteSets, TLC

\* ------------------------------------------------------------------------
\* Bounds of the model
\* ------------------------------------------------------------------------
\* number of frames the controller sends on the wire
MaxReads == 1
\* number of lines the user types at the console
MaxLines == 2
\* number of breaks the interpreter thread runs into
MaxBreaks == 2
\* number of spurious wakeups of the condition variable
MaxSpurious == 1
\* length of the strings encodeXml is applied to
MaxXmlLen == 3

\* ------------------------------------------------------------------------
\* Strings: characters, std::regex, boost string algorithms
\* ------------------------------------------------------------------------
Digit == {"0", "1", "2", "3", "4", "5", "6", "7", "8", "9"}
Lower == {"a", "b", "c", "d", "e", "f", "g", "h", "i", "j", "k", "l", "m",
          "n", "o", "p", "q", "r", "s", "t", "u", "v", "w", "x", "y", "z"}
\* \s of ECMAScript regex, and std::isspace as used by boost::trim_copy
Space == {" ", "\n", "\t", "\r"}
\* every character a modelled line is written with
Chars == Digit \cup Lower \cup Space \cup {"/", ".", ":", ";", "+"}

SetMax(S) == CHOOSE x \in S : \A y \in S : y <= x
SetMin(S) == CHOOSE x \in S : \A y \in S : x <= y

\* regex syntax tree
Chr(S) == [t |-> "chr", c |-> S]
Lit(w) == [t |-> "lit", w |-> w]
Cat(rs) == [t |-> "cat", rs |-> rs]
Opt(r) == [t |-> "opt", r |-> r]
Star(r) == [t |-> "star", r |-> r]
Plus(r) == Cat(<<r, Star(r)>>)
Bol == [t |-> "bol"]
Eol == [t |-> "eol"]

\* the positions at which a match of r can end when it starts at a position of I
RECURSIVE Ends(_, _, _)
Ends(r, s, I) ==
  CASE r.t = "chr" -> {i + 1 : i \in {j \in I : j <= Len(s) /\ s[j] \in r.c}}
    [] r.t = "lit" -> {i + Len(r.w) : i \in {j \in I : /\ j + Len(r.w) - 1 <= Len(s)
                                                       /\ SubSeq(s, j, j + Len(r.w) - 1) = r.w}}
    [] r.t = "cat" -> IF Len(r.rs) = 0 THEN I
                      ELSE Ends(Cat(Tail(r.rs)), s, Ends(Head(r.rs), s, I))
    [] r.t = "opt" -> I \cup Ends(r.r, s, I)
    [] r.t = "star" -> LET J == I \cup Ends(r.r, s, I)
                       IN IF J = I THEN I ELSE Ends(r, s, J)
    [] r.t = "bol" -> I \cap {1}
    [] r.t = "eol" -> I \cap {Len(s) + 1}

\* std::regex_match: the whole string matches
regex_match(s, r) == (Len(s) + 1) \in Ends(r, s, {1})

\* std::regex_search: some substring matches; the match is the leftmost one and,
\* for the greedy patterns used here, the longest at that start
SearchStarts(s, r) == {i \in 1..(Len(s) + 1) : Ends(r, s, {i}) # {}}
regex_search(s, r) == SearchStarts(s, r) # {}
\* smatch::suffix(): what follows the match
suffix(s, r) == SubSeq(s, SetMax(Ends(r, s, {SetMin(SearchStarts(s, r))})), Len(s))

\* boost::trim_copy
RECURSIVE TrimLeft(_)
TrimLeft(s) == IF s # <<>> /\ Head(s) \in Space THEN TrimLeft(Tail(s)) ELSE s
RECURSIVE TrimRight(_)
TrimRight(s) == IF s # <<>> /\ s[Len(s)] \in Space
                THEN TrimRight(SubSeq(s, 1, Len(s) - 1)) ELSE s
trim_copy(s) == TrimRight(TrimLeft(s))

\* boost::split(commands, str, is_any_of(";")): empty tokens are kept
RECURSIVE split(_)
split(s) ==
  IF \A i \in 1..Len(s) : s[i] # ";" THEN <<s>>
  ELSE LET k == SetMin({i \in 1..Len(s) : s[i] = ";"})
       IN <<SubSeq(s, 1, k - 1)>> \o split(SubSeq(s, k + 1, Len(s)))

\* boost::replace_all(bp.file, "\\", "/"); no modelled line holds a backslash
replace_backslash(s) == [i \in 1..Len(s) |-> IF s[i] = "\\" THEN "/" ELSE s[i]]

DigitVal(c) == CASE c = "0" -> 0 [] c = "1" -> 1 [] c = "2" -> 2 [] c = "3" -> 3
                 [] c = "4" -> 4 [] c = "5" -> 5 [] c = "6" -> 6 [] c = "7" -> 7
                 [] c = "8" -> 8 [] c = "9" -> 9
RECURSIVE DecValue(_)
DecValue(s) == IF s = <<>> THEN 0
               ELSE 10 * DecValue(SubSeq(s, 1, Len(s) - 1)) + DigitVal(s[Len(s)])

RECURSIVE StripZeros(_)
StripZeros(s) == IF s # <<>> /\ Head(s) = "0" THEN StripZeros(Tail(s)) ELSE s
\* s < t for digit strings of equal length
RECURSIVE DigitsLess(_, _)
DigitsLess(s, t) ==
  IF s = <<>> THEN FALSE
  ELSE \/ DigitVal(Head(s)) < DigitVal(Head(t))
       \/ Head(s) = Head(t) /\ DigitsLess(Tail(s), Tail(t))
\* std::numeric_limits<size_t>::max() of a 64-bit build, 18446744073709551615
SizeMaxDigits == <<"1","8","4","4","6","7","4","4","0","7","3","7","0","9","5","5","1","6","1","5">>
Overflows(s) == LET t == StripZeros(s)
                IN \/ Len(t) > Len(SizeMaxDigits)
                   \/ Len(t) = Len(SizeMaxDigits) /\ DigitsLess(SizeMaxDigits, t)

\* boost::lexical_cast<size_t>(s) throws bad_lexical_cast: on the empty string, on
\* a character that is no digit (a leading '+' is accepted), and on overflow
Unsigned(s) == IF s # <<>> /\ Head(s) = "+" THEN Tail(s) ELSE s
bad_lexical_cast(s) ==
  \/ Unsigned(s) = <<>>
  \/ \E i \in 1..Len(Unsigned(s)) : Unsigned(s)[i] \notin Digit
  \/ Overflows(Unsigned(s))
\* its value otherwise
lexical_cast(s) == DecValue(Unsigned(s))

\* std::atoi: skips leading white space, takes an optional '+', reads the digits
\* that follow and stops at the first other character; no digits give 0
RECURSIVE DigitPrefix(_)
DigitPrefix(s) == IF s # <<>> /\ Head(s) \in Digit
                  THEN <<Head(s)>> \o DigitPrefix(Tail(s)) ELSE <<>>
IntMax == 2147483647
IntMaxDigits == <<"2","1","4","7","4","8","3","6","4","7">>
AtoiDigits(s) == StripZeros(DigitPrefix(Unsigned(TrimLeft(s))))
\* the result is undefined when the value is not representable in int: any of the
\* values a build can give (saturation, truncation of LONG_MAX, wrap to 0)
atoi(s) ==
  LET d == AtoiDigits(s)
  IN IF \/ Len(d) > Len(IntMaxDigits)
        \/ Len(d) = Len(IntMaxDigits) /\ DigitsLess(IntMaxDigits, d)
     THEN {IntMax, -1, 0}
     ELSE {DecValue(d)}

\* sscanf(str, "%x", &objectID): skips white space, takes an optional "0x", reads
\* the hexadecimal digits that follow; none leaves objectID at its initial 0
HexDigit == Digit \cup {"a", "b", "c", "d", "e", "f"}
HexVal(c) == CASE c \in Digit -> DigitVal(c)
               [] c = "a" -> 10 [] c = "b" -> 11 [] c = "c" -> 12
               [] c = "d" -> 13 [] c = "e" -> 14 [] c = "f" -> 15
RECURSIVE HexPrefix(_)
HexPrefix(s) == IF s # <<>> /\ Head(s) \in HexDigit
                THEN <<Head(s)>> \o HexPrefix(Tail(s)) ELSE <<>>
RECURSIVE HexValue(_)
HexValue(s) == IF s = <<>> THEN 0
               ELSE 16 * HexValue(SubSeq(s, 1, Len(s) - 1)) + HexVal(s[Len(s)])
Strip0x(s) == IF Len(s) >= 2 /\ SubSeq(s, 1, 2) = <<"0", "x">> THEN SubSeq(s, 3, Len(s)) ELSE s
sscanf_x(s) == HexValue(HexPrefix(Strip0x(TrimLeft(s))))

\* ------------------------------------------------------------------------
\* RDIP::Connection::evaluateCommand: the patterns
\* ------------------------------------------------------------------------
WS == Star(Chr(Space))
\* '.' matches every character but a line terminator
Dot == Chr(Chars \ {"\n", "\r"})
NotDotColon == Chr(Chars \ {".", ":"})

\* "^\\s*b(?:reak)?\\s+(?:(.+):)?([^.:]+)$"
reg_brk_head == Cat(<<Bol, WS, Lit(<<"b">>), Opt(Lit(<<"r","e","a","k">>)), Plus(Chr(Space))>>)
reg_brk_line == Cat(<<Plus(NotDotColon), Eol>>)
reg_brk == Cat(<<reg_brk_head, Opt(Cat(<<Plus(Dot), Lit(<<":">>)>>)), reg_brk_line>>)
\* what[1] and what[2] of a line that matches reg_brk: \s+ and (.+) are greedy, so
\* the file ends at the last ':' that leaves a line part
brk_what(s) ==
  LET n == Len(s)
      rest == Cat(<<Opt(Cat(<<Plus(Dot), Lit(<<":">>)>>)), reg_brk_line>>)
      k1 == SetMax({k \in Ends(reg_brk_head, s, {1}) : (n + 1) \in Ends(rest, s, {k})})
      K2 == {k \in Ends(Plus(Dot), s, {k1}) :
               /\ k <= n /\ s[k] = ":"
               /\ (n + 1) \in Ends(reg_brk_line, s, {k + 1})}
  IN IF K2 # {}
     THEN [file |-> SubSeq(s, k1, SetMax(K2) - 1), line |-> SubSeq(s, SetMax(K2) + 1, n)]
     ELSE [file |-> <<>>, line |-> SubSeq(s, k1, n)]

\* "^\\s*del(?:ete)?(?:\\s+(\\d+))?$"
reg_brk_del_head == Cat(<<Bol, WS, Lit(<<"d","e","l">>), Opt(Lit(<<"e","t","e">>))>>)
reg_brk_del_arg == Cat(<<Plus(Chr(Space)), Plus(Chr(Digit))>>)
reg_brk_del == Cat(<<reg_brk_del_head, Opt(reg_brk_del_arg), Eol>>)
\* what[1] of a line that matches reg_brk_del: empty when the group took no part
brk_del_what(s) ==
  LET n == Len(s)
      K == {k \in Ends(Cat(<<reg_brk_del_head, Plus(Chr(Space))>>), s, {1}) :
              (n + 1) \in Ends(Cat(<<Plus(Chr(Digit)), Eol>>), s, {k})}
  IN IF K = {} THEN <<>> ELSE SubSeq(s, SetMax(K), n)

\* "^\\s*start$"
reg_start == Cat(<<Bol, WS, Lit(<<"s","t","a","r","t">>), Eol>>)
\* "^\\s*exit?$"
reg_exit == Cat(<<Bol, WS, Lit(<<"e","x","i">>), Opt(Lit(<<"t">>)), Eol>>)
\* "^\\s*c(?:ont)?$"
reg_cont == Cat(<<Bol, WS, Lit(<<"c">>), Opt(Lit(<<"o","n","t">>)), Eol>>)
\* "^\\s*w(?:here)?$"
reg_where == Cat(<<Bol, WS, Lit(<<"w">>), Opt(Lit(<<"h","e","r","e">>)), Eol>>)
\* "^\\s*f(?:rame)? ([0-9]+)$"
reg_frame_head == Cat(<<Bol, WS, Lit(<<"f">>), Opt(Lit(<<"r","a","m","e">>)), Lit(<<" ">>)>>)
reg_frame == Cat(<<reg_frame_head, Plus(Chr(Digit)), Eol>>)
frame_what(s) == SubSeq(s, SetMax(Ends(reg_frame_head, s, {1})), Len(s))
\* "^\\s*s(?:tep)?\\s?"
reg_step == Cat(<<Bol, WS, Lit(<<"s">>), Opt(Lit(<<"t","e","p">>)), Opt(Chr(Space))>>)
\* "^\\s*n(?:ext)?$"
reg_next == Cat(<<Bol, WS, Lit(<<"n">>), Opt(Lit(<<"e","x","t">>)), Eol>>)
\* "^\\s*finish?$"
reg_finish == Cat(<<Bol, WS, Lit(<<"f","i","n","i","s">>), Opt(Lit(<<"h">>)), Eol>>)
\* "v inspect\\s+"
reg_var_inspect == Cat(<<Lit(<<"v"," ","i","n","s","p","e","c","t">>), Plus(Chr(Space))>>)
\* "^\\s*th(?:read)? l(?:ist)?$"
reg_thr_lst == Cat(<<Bol, WS, Lit(<<"t","h">>), Opt(Lit(<<"r","e","a","d">>)),
                     Lit(<<" ","l">>), Opt(Lit(<<"i","s","t">>)), Eol>>)
\* "^\\s*v(?:ar)? l(?:ocal)?$"
reg_var_local == Cat(<<Bol, WS, Lit(<<"v">>), Opt(Lit(<<"a","r">>)),
                       Lit(<<" ","l">>), Opt(Lit(<<"o","c","a","l">>)), Eol>>)
\* "^\\s*v(?:ar)? g(?:lobal)?$"
reg_var_global == Cat(<<Bol, WS, Lit(<<"v">>), Opt(Lit(<<"a","r">>)),
                        Lit(<<" ","g">>), Opt(Lit(<<"l","o","b","a","l">>)), Eol>>)
\* "^\\s*v(?:ar)? i(?:nstance)? (.+)$"
reg_var_instance_head == Cat(<<Bol, WS, Lit(<<"v">>), Opt(Lit(<<"a","r">>)), Lit(<<" ","i">>),
                               Opt(Lit(<<"n","s","t","a","n","c","e">>)), Lit(<<" ">>)>>)
reg_var_instance == Cat(<<reg_var_instance_head, Plus(Dot), Eol>>)
var_instance_what(s) ==
  LET n == Len(s)
  IN SubSeq(s, SetMax({k \in Ends(reg_var_instance_head, s, {1}) :
                          (n + 1) \in Ends(Cat(<<Plus(Dot), Eol>>), s, {k})}), n)

\* the frames the controller sends on the wire, each one read of async_read_until
WireFrames == {
  <<"b"," ","/","x",".","r","b",":","1","0","\n">>,          \* b /x.rb:10
  <<"b"," ","/","x",".","r","b",":","f","o","o","\n">>,      \* b /x.rb:foo
  <<"d","e","l"," ","1","\n">>,                              \* del 1
  <<"d","e","l","\n">>,                                      \* del
  <<"d","e","l"," ","9","9","9","9","9","9","9","9","9","9",
    "9","9","9","9","9","9","9","9","9","9","\n">>,          \* del 99999999999999999999
  <<"s","t","a","r","t","\n">>,                              \* start
  <<"c","\n">>,                                              \* c
  <<"e","x","i","t","\n">>,                                  \* exit
  <<"w","\n">>,                                              \* w
  <<"t","h"," ","l","\n">>,                                  \* th l
  <<"f"," ","1","\n">>,                                      \* f 1
  <<"s","\n">>,                                              \* s
  <<"f","i","n","i","s","h","\n">>,                          \* finish
  <<"n","\n">>,                                              \* n
  <<"v"," ","i","n","s","p","e","c","t"," ","x","\n">>,      \* v inspect x
  <<"v"," ","l","\n">>,                                      \* v l
  <<"v"," ","g","\n">>,                                      \* v g
  <<"v"," ","i"," ","1","f","\n">>,                          \* v i 1f
  <<"z","z","\n">>,                                          \* zz
  <<"v"," ","l",";"," ","w","\n">>,                          \* v l; w
  <<"v"," ","l",";"," ","c","\n">>,                          \* v l; c
  <<"v"," ","l",";"," ","v"," ","g","\n">> }                 \* v l; v g

\* ------------------------------------------------------------------------
\* XML escaping (RDIP.cpp, lines 175-182)
\* ------------------------------------------------------------------------
\* boost::replace_all / replace_all_copy with a search string of one character:
\* every occurrence is replaced, left to right; the replacement is not searched
RECURSIVE replace_all(_, _, _)
replace_all(s, from, to) ==
  IF s = <<>> THEN <<>>
  ELSE (IF Head(s) = from THEN to ELSE <<Head(s)>>) \o replace_all(Tail(s), from, to)

amp == <<"&", "a", "m", "p", ";">>
quot == <<"&", "q", "u", "o", "t", ";">>
lt == <<"&", "l", "t", ";">>
gt == <<"&", "g", "t", ";">>
apos == <<"&", "a", "p", "o", "s", ";">>

\* an encodeXml that replaces "&" last
encodeXml_amp_last(str) ==
  replace_all(replace_all(replace_all(replace_all(replace_all(
    str, "\"", quot), "<", lt), ">", gt), "'", apos), "&", amp)

\* encodeXml: "&" first, then the quote, "<", ">" and the apostrophe
encodeXml(str) ==
  replace_all(replace_all(replace_all(replace_all(replace_all(
    str, "&", amp), "\"", quot), "<", lt), ">", gt), "'", apos)

\* the five predefined entities of XML and the characters they stand for
XmlEntities == { [ent |-> amp, ch |-> "&"], [ent |-> quot, ch |-> "\""],
                 [ent |-> lt, ch |-> "<"], [ent |-> gt, ch |-> ">"],
                 [ent |-> apos, ch |-> "'"] }
\* the entities that start s
EntitiesAt(s) ==
  {e \in XmlEntities : Len(e.ent) <= Len(s) /\ SubSeq(s, 1, Len(e.ent)) = e.ent}

\* what an XML parser reads from attribute-value text: each entity is its
\* character, every other character is itself
RECURSIVE XmlDecode(_)
XmlDecode(s) ==
  IF s = <<>> THEN <<>>
  ELSE IF EntitiesAt(s) # {}
  THEN LET e == CHOOSE e \in EntitiesAt(s) : TRUE
       IN <<e.ch>> \o XmlDecode(SubSeq(s, Len(e.ent) + 1, Len(s)))
  ELSE <<Head(s)>> \o XmlDecode(Tail(s))

\* text an XML parser accepts inside a quoted attribute value: no raw quote, "<",
\* ">" or apostrophe, and every "&" starts one of the five entities
XmlWellFormed(s) ==
  \A i \in 1..Len(s) :
    /\ s[i] \notin {"\"", "<", ">", "'"}
    /\ s[i] = "&" => EntitiesAt(SubSeq(s, i, Len(s))) # {}

\* the characters of the strings encodeXml is applied to: the five it escapes and
\* ordinary ones
XmlAlphabet == {"&", "\"", "<", ">", "'", "a", ";"}
\* the strings the engine hands over (file names, variable names and values):
\* all of them up to the bound, and two that already look like entities
XmlInputs == UNION {[1..k -> XmlAlphabet] : k \in 0..MaxXmlLen} \cup {amp, lt}

\* ------------------------------------------------------------------------
\* State
\* ------------------------------------------------------------------------
VARIABLES
  fe,                        \* the front-end of this session: "wire" (RDIP) or "console" (ConsoleUI)
  ipc,                       \* where the interpreter thread is
  apc,                       \* where the adapter thread is (wire: the thread of io_service_.run())
  server_wait_mutex_,        \* owner of the rendezvous mutex: "free", "interp" or "adapter"
  server_can_continue_,      \* the rendezvous flag
  reads_left,                \* reads the controller may still send
  breaks_left,               \* breaks the script may still run into
  spurious_left,             \* spurious wakeups the condition variable may still deliver
  ncmd,                      \* commands dispatched so far; a command's number is its id
  rframe,                    \* wire: the commands of the frame in handleCommand, not yet evaluated
  acur,                      \* wire: the branch of evaluateCommand the adapter thread is inside
  read_armed,                \* wire: an async_read_until is outstanding
  read_error,                \* wire: handleCommand was called with err set
  posted,                    \* wire: handlers posted to io_service_, oldest first
  server_response_,          \* wire: the task for the interpreter thread (std::function)
  process_server_response_,  \* wire: its follow-up for the adapter thread (std::function)
  expression_to_eval_,       \* wire: Connection::expression_to_eval_
  variables_to_send_,        \* wire: Connection::variables_to_send_
  variables_to_send_mutex_,  \* wire: owner of Connection::variables_to_send_mutex_
  socket_,                   \* wire: what write(socket_, ..) has put on the socket, in two parts per message
  cur_task,                  \* the task the interpreter thread is executing
  task_done,                 \* ids of the commands whose task has returned
  bps,                       \* engine: registered breakpoints
  bp_next,                   \* engine: next breakpoint index
  active_frame,              \* engine: active frame index
  engine_calls,              \* engine: the operations called so far, with the calling thread
  stop_log,                  \* engine: what Stop() found when it was called
  str_command,               \* console: the line EvaluateCommand was called with
  is_legal_command,          \* console: local of EvaluateCommand
  signal_server_can_continue, \* console: local of EvaluateCommand
  write_prompt,              \* console: local of EvaluateCommand
  cnext,                     \* console: where EvaluateCommand goes on after the write in progress
  need_server_response_,     \* console: a request for the interpreter thread is stored
  need_what_from_server_,    \* console: what it asks for
  need_id,                   \* console: id of the command that stored it
  expression_to_evaluate_,   \* console: ConsoleUI::expression_to_evaluate_
  server_will_continue_,     \* console: ConsoleUI::server_will_continue_
  console_output_mutex_,     \* console: owner of console_output_mutex_
  cout,                      \* console: what was written to std::cout, in two parts per message
  xml_str,                   \* the argument of a call of encodeXml
  xml_encoded,               \* what the call returned
  xml_pc                     \* "idle": no call is followed; "call": called; "encoded": returned

wire_vars == <<rframe, acur, read_armed, read_error, posted, server_response_,
               process_server_response_, expression_to_eval_, variables_to_send_,
               variables_to_send_mutex_, socket_>>
engine_vars == <<bps, bp_next, active_frame, engine_calls, stop_log>>
con_vars == <<str_command, is_legal_command, signal_server_can_continue, write_prompt, cnext,
              need_server_response_, need_what_from_server_, need_id,
              expression_to_evaluate_, server_will_continue_, console_output_mutex_, cout>>
xml_vars == <<xml_str, xml_encoded, xml_pc>>
vars == <<xml_vars, fe, ipc, apc, server_wait_mutex_, server_can_continue_, reads_left, breaks_left,
         spurious_left,
          ncmd, cur_task, task_done, wire_vars, engine_vars, con_vars>>

\* an empty std::function
NoTask == [fn |-> "none", arg |-> 0, id |-> 0]
NoFollowUp == [kind |-> "none", id |-> 0]
\* an empty VariablesVector
NoVars == [of |-> "none", id |-> 0]
NoStop == [called |-> FALSE, can_continue |-> FALSE, at_break |-> FALSE]

\* the state once the interpreter runs the script, the adapter thread is started
\* and (wire) the connection is accepted and the first read is armed
ProgramInit ==
  /\ fe \in {"wire", "console"}
  /\ ipc = "running"
  /\ apc = "idle"
  /\ server_wait_mutex_ = "free"
  /\ server_can_continue_ = FALSE
  /\ reads_left = IF fe = "wire" THEN MaxReads ELSE MaxLines
  /\ breaks_left = MaxBreaks
  /\ spurious_left = MaxSpurious
  /\ ncmd = 0
  /\ rframe = <<>>
  /\ acur = "none"
  /\ read_armed = (fe = "wire")
  /\ read_error = FALSE
  /\ posted = <<>>
  /\ server_response_ = NoTask
  /\ process_server_response_ = NoFollowUp
  /\ expression_to_eval_ = <<>>
  /\ variables_to_send_ = NoVars
  /\ variables_to_send_mutex_ = "free"
  /\ socket_ = <<>>
  /\ cur_task = NoTask
  /\ task_done = {}
  /\ bps = {}
  /\ bp_next = 1
  /\ active_frame = 0
  /\ engine_calls = {}
  /\ stop_log = NoStop
  /\ str_command = <<>>
  /\ is_legal_command = FALSE
  /\ signal_server_can_continue = FALSE
  /\ write_prompt = FALSE
  /\ cnext = "none"
  /\ need_server_response_ = FALSE
  /\ need_what_from_server_ = "NEED_NOTHING"
  /\ need_id = 0
  /\ expression_to_evaluate_ = <<>>
  /\ server_will_continue_ = FALSE
  /\ console_output_mutex_ = "free"
  /\ cout = <<>>

\* a session: no call of encodeXml is followed
Init ==
  /\ ProgramInit
  /\ xml_str = <<>>
  /\ xml_encoded = <<>>
  /\ xml_pc = "idle"

\* std::terminate has not ended the process
Alive == apc # "dead"

\* the interpreter thread is inside WaitForContinue, past the reset of the flag
InWait == {"loop", "task", "post", "clear", "wait", "waiting", "woken",
           "result", "result_w", "prompt", "prompt_w"}

\* a notification that wakes nobody
notify_nobody(pc) == pc

\* condition_variable::notify_all / notify_one with the one possible waiter: a
\* thread blocked in wait() is woken, any other thread is not affected
notify(pc) == IF pc = "waiting" THEN "woken" ELSE pc

\* IDebugServer call by thread th
Called(op, th) == engine_calls \cup {<<op, th>>}

\* ------------------------------------------------------------------------
\* RDIP: the interpreter thread
\* ------------------------------------------------------------------------
\* a Break that writes the stop notification from the interpreter thread
RDIP_Break_writes ==
  /\ fe = "wire" /\ Alive
  /\ ipc = "running" /\ breaks_left > 0 /\ ~stop_log.called
  /\ \E h \in {"stopAtBreakpoint", "suspendAt"} :
       socket_' = socket_ \o
         << [tag |-> h, id |-> 0, kind |-> "none", vars |-> NoVars, part |-> "begin",
             by |-> "interp"],
            [tag |-> h, id |-> 0, kind |-> "none", vars |-> NoVars, part |-> "end",
             by |-> "interp"] >>
  /\ ipc' = "enter"
  /\ breaks_left' = breaks_left - 1
  /\ UNCHANGED <<xml_vars, fe, spurious_left, con_vars, apc, server_wait_mutex_, server_can_continue_,
                 reads_left, ncmd, cur_task, task_done, rframe, acur, read_armed, read_error,
                 posted, server_response_, process_server_response_, expression_to_eval_,
                 variables_to_send_, variables_to_send_mutex_, engine_vars>>

\* RDIP::Break (both overloads): post the stop notification, then WaitForContinue
RDIP_Break ==
  /\ fe = "wire" /\ Alive
  /\ ipc = "running" /\ breaks_left > 0 /\ ~stop_log.called
  /\ \E h \in {"stopAtBreakpoint", "suspendAt"} :
       posted' = Append(posted, [h |-> h, kind |-> "none", id |-> 0])
  /\ ipc' = "enter"
  /\ breaks_left' = breaks_left - 1
  /\ UNCHANGED <<xml_vars, fe, spurious_left, con_vars, apc, server_wait_mutex_, server_can_continue_, reads_left, ncmd,
                 cur_task, task_done, rframe, acur, read_armed, read_error,
                 server_response_, process_server_response_, expression_to_eval_,
                 variables_to_send_, variables_to_send_mutex_, socket_, engine_vars>>

\* a WaitForContinue without the reset of line 91
RDIP_WaitForContinue_Enter_no_reset ==
  /\ fe = "wire" /\ Alive
  /\ ipc = "enter" /\ server_wait_mutex_ = "free"
  /\ server_wait_mutex_' = "interp"
  /\ UNCHANGED server_can_continue_
  /\ ipc' = "loop"
  /\ UNCHANGED <<xml_vars, fe, spurious_left, con_vars, apc, reads_left, breaks_left, ncmd, cur_task, task_done,
                 wire_vars, engine_vars>>

\* RDIP::WaitForContinue, lines 90-91: lock the mutex, reset the flag
RDIP_WaitForContinue_Enter ==
  /\ fe = "wire" /\ Alive
  /\ ipc = "enter" /\ server_wait_mutex_ = "free"
  /\ server_wait_mutex_' = "interp"
  /\ server_can_continue_' = FALSE
  /\ ipc' = "loop"
  /\ UNCHANGED <<xml_vars, fe, spurious_left, con_vars, apc, reads_left, breaks_left, ncmd, cur_task, task_done,
                 wire_vars, engine_vars>>

\* the engine operation a task calls
TaskOp(task) ==
  CASE task.fn = "getLocalVariables" -> "GetLocalVariables"
    [] task.fn = "getGlobalVariables" -> "GetGlobalVariables"
    [] task.fn = "getInstanceVariables" -> "GetInstanceVariables"
    [] task.fn = "evalExpression" -> "EvaluateExpression"

\* lines 92-94 and 101: the loop test; with the flag clear, the test of
\* server_response_ and the call of it, which first locks variables_to_send_mutex_
RDIP_WaitForContinue_Loop ==
  /\ fe = "wire" /\ Alive
  /\ ipc = "loop"
  /\ IF server_can_continue_
     THEN /\ ipc' = "running"
          /\ server_wait_mutex_' = "free"
          /\ UNCHANGED <<cur_task, variables_to_send_mutex_>>
     ELSE IF server_response_ # NoTask
     THEN /\ variables_to_send_mutex_ = "free"
          /\ variables_to_send_mutex_' = "interp"
          /\ cur_task' = server_response_
          /\ ipc' = "task"
          /\ UNCHANGED server_wait_mutex_
     ELSE /\ ipc' = "wait"
          /\ UNCHANGED <<cur_task, variables_to_send_mutex_, server_wait_mutex_>>
  /\ UNCHANGED <<xml_vars, fe, spurious_left, con_vars, apc, server_can_continue_, reads_left, breaks_left, ncmd, task_done,
                 rframe, acur, read_armed, read_error, posted, server_response_,
                 process_server_response_, expression_to_eval_, variables_to_send_,
                 socket_, engine_vars>>

\* Connection::getVariables / getInstanceVariables / evalExpression, run by
\* server_response_() on the interpreter thread: the engine call and the store of
\* its result in variables_to_send_
RDIP_Task ==
  /\ fe = "wire" /\ Alive
  /\ ipc = "task"
  /\ IF cur_task.fn = "evalExpression"
     THEN IF expression_to_eval_ # <<>>
          THEN /\ engine_calls' = Called("EvaluateExpression", "interp")
               /\ variables_to_send_' = [of |-> "evalExpression", id |-> cur_task.id]
               /\ expression_to_eval_' = <<>>
          ELSE /\ variables_to_send_' = NoVars
               /\ UNCHANGED <<engine_calls, expression_to_eval_>>
     ELSE /\ engine_calls' = Called(TaskOp(cur_task), "interp")
          /\ variables_to_send_' = [of |-> cur_task.fn, id |-> cur_task.id]
          /\ UNCHANGED expression_to_eval_
  /\ variables_to_send_mutex_' = "free"
  /\ task_done' = task_done \cup {cur_task.id}
  /\ cur_task' = NoTask
  /\ ipc' = "post"
  /\ UNCHANGED <<xml_vars, fe, spurious_left, con_vars, apc, server_wait_mutex_, server_can_continue_, reads_left, breaks_left,
                 ncmd, rframe, acur, read_armed, read_error, posted, server_response_,
                 process_server_response_, socket_, bps, bp_next, active_frame, stop_log>>

\* lines 95-96: post the follow-up that process_server_response_ holds now
RDIP_WaitForContinue_Post ==
  /\ fe = "wire" /\ Alive
  /\ ipc = "post"
  /\ posted' = IF process_server_response_ # NoFollowUp
               THEN Append(posted, [h |-> "sendVariables",
                                    kind |-> process_server_response_.kind,
                                    id |-> process_server_response_.id])
               ELSE posted
  /\ ipc' = "clear"
  /\ UNCHANGED <<xml_vars, fe, spurious_left, con_vars, apc, server_wait_mutex_, server_can_continue_, reads_left, breaks_left,
                 ncmd, cur_task, task_done, rframe, acur, read_armed, read_error,
                 server_response_, process_server_response_, expression_to_eval_,
                 variables_to_send_, variables_to_send_mutex_, socket_, engine_vars>>

\* line 97: server_response_ = nullptr
RDIP_WaitForContinue_Clear ==
  /\ fe = "wire" /\ Alive
  /\ ipc = "clear"
  /\ server_response_' = NoTask
  /\ ipc' = "wait"
  /\ UNCHANGED <<xml_vars, fe, spurious_left, con_vars, apc, server_wait_mutex_, server_can_continue_, reads_left, breaks_left,
                 ncmd, cur_task, task_done, rframe, acur, read_armed, read_error, posted,
                 process_server_response_, expression_to_eval_,
                 variables_to_send_, variables_to_send_mutex_, socket_, engine_vars>>

\* line 99: server_wait_cond_.wait(lock) releases the mutex and blocks
RDIP_WaitForContinue_Wait ==
  /\ fe = "wire" /\ Alive
  /\ ipc = "wait"
  /\ server_wait_mutex_' = "free"
  /\ ipc' = "waiting"
  /\ UNCHANGED <<xml_vars, fe, spurious_left, con_vars, apc, server_can_continue_, reads_left, breaks_left, ncmd, cur_task,
                 task_done, wire_vars, engine_vars>>

\* line 99: wait() returns once woken and the mutex is locked again
RDIP_WaitForContinue_Woken ==
  /\ fe = "wire" /\ Alive
  /\ ipc = "woken" /\ server_wait_mutex_ = "free"
  /\ server_wait_mutex_' = "interp"
  /\ ipc' = "loop"
  /\ UNCHANGED <<xml_vars, fe, spurious_left, con_vars, apc, server_can_continue_, reads_left, breaks_left, ncmd, cur_task,
                 task_done, wire_vars, engine_vars>>

\* condition_variable::wait may wake without a notification
SpuriousWakeup ==
  /\ Alive
  /\ ipc = "waiting" /\ spurious_left > 0
  /\ spurious_left' = spurious_left - 1
  /\ ipc' = "woken"
  /\ UNCHANGED <<xml_vars, fe, con_vars, apc, server_wait_mutex_, server_can_continue_, reads_left, breaks_left,
                 ncmd, cur_task, task_done, wire_vars, engine_vars>>

\* ------------------------------------------------------------------------
\* RDIP: the adapter thread (io_service_.run() in RDIP::RunService)
\* ------------------------------------------------------------------------
\* write(socket_, ..) of one message: its first part; write_end puts the rest
Chunk(tag, id, kind, variables, part) ==
  [tag |-> tag, id |-> id, kind |-> kind, vars |-> variables, part |-> part, by |-> "adapter"]
write_begin(tag, id, kind, variables) ==
  /\ socket_' = Append(socket_, Chunk(tag, id, kind, variables, "begin"))
  /\ apc' = "write"
  /\ UNCHANGED <<rframe, read_armed>>

\* evaluateCommand returns to the loop of handleCommand (lines 163-167): the next
\* command of the frame, or async_read_until and the end of the handler
command_done ==
  /\ rframe' = Tail(rframe)
  /\ IF Len(rframe) = 1
     THEN apc' = "idle" /\ read_armed' = TRUE
     ELSE apc' = "eval" /\ UNCHANGED read_armed

\* Connection::handleCommand, lines 154-162 and 168-172: a read completes, with the
\* frame the controller sent or with an error
handleCommand(err) ==
  /\ fe = "wire" /\ Alive
  /\ apc = "idle" /\ read_armed
  /\ read_armed' = FALSE
  /\ IF err
     THEN /\ read_error' = TRUE
          /\ UNCHANGED <<apc, rframe, reads_left>>
     ELSE /\ reads_left > 0
          /\ reads_left' = reads_left - 1
          /\ \E frame \in WireFrames : rframe' = split(frame)
          /\ apc' = "eval"
          /\ UNCHANGED read_error
  /\ UNCHANGED <<xml_vars, fe, spurious_left, con_vars, ipc, server_wait_mutex_, server_can_continue_, breaks_left, ncmd,
                 cur_task, task_done, acur, posted, server_response_,
                 process_server_response_, expression_to_eval_, variables_to_send_,
                 variables_to_send_mutex_, socket_, engine_vars>>

\* IDebugServer::AddBreakPoint(bp, true): the engine registers the breakpoint and
\* assigns its index, or refuses
AddBreakPoint(file, line, ok) ==
  /\ bps' = IF ok THEN bps \cup {[index |-> bp_next, file |-> file, line |-> line]} ELSE bps
  /\ bp_next' = IF ok THEN bp_next + 1 ELSE bp_next

\* IDebugServer::RemoveBreakPoint(index): true when a breakpoint has that index
RemoveBreakPoint(index) == \E bp \in bps : bp.index = index

\* lines 202-219
evaluate_brk(cmd, id) ==
  \E what \in {brk_what(cmd)} : \E line \in atoi(what.line), ok \in BOOLEAN :
    /\ AddBreakPoint(replace_backslash(what.file), line, ok)
    /\ engine_calls' = Called("AddBreakPoint", "adapter")
    /\ IF ok THEN write_begin("breakpointAdded", id, "none", NoVars)
             ELSE command_done /\ UNCHANGED socket_
    /\ UNCHANGED <<acur, server_response_, expression_to_eval_, active_frame>>

\* lines 220-232; bad_lexical_cast is caught nowhere: it leaves handleCommand,
\* io_service_.run() and the thread function RunService, which is std::terminate
evaluate_brk_del(cmd, id) ==
  \E str_what \in {brk_del_what(cmd)} :
  IF bad_lexical_cast(str_what)
  THEN /\ apc' = "dead"
       /\ UNCHANGED <<rframe, read_armed, acur, server_response_, expression_to_eval_,
                      socket_, bps, bp_next, active_frame, engine_calls>>
  ELSE /\ engine_calls' = Called("RemoveBreakPoint", "adapter")
       /\ IF RemoveBreakPoint(lexical_cast(str_what))
          THEN /\ bps' = {bp \in bps : bp.index # lexical_cast(str_what)}
               /\ write_begin("breakpointDeleted", id, "none", NoVars)
          ELSE /\ command_done
               /\ UNCHANGED <<bps, socket_>>
       /\ UNCHANGED <<acur, server_response_, expression_to_eval_, bp_next, active_frame>>

\* lines 233-245 and 280-294: the engine call of a stepping command, then the
\* lock_guard of server_wait_mutex_, at which the thread may have to wait
evaluate_resume(branch, op) ==
  /\ acur' = branch
  /\ engine_calls' = IF op = "none" THEN engine_calls ELSE Called(op, "adapter")
  /\ apc' = "lock"
  /\ UNCHANGED <<rframe, read_armed, server_response_, expression_to_eval_, socket_,
                 bps, bp_next, active_frame>>

\* lines 246-273: <frames> and <threads> are written by the adapter thread
evaluate_report(tag, op, id) ==
  /\ engine_calls' = IF op = "none" THEN engine_calls ELSE Called(op, "adapter")
  /\ write_begin(tag, id, "none", NoVars)
  /\ UNCHANGED <<acur, server_response_, expression_to_eval_, bps, bp_next, active_frame>>

\* lines 274-279
evaluate_frame(cmd) ==
  \E str_what \in {frame_what(cmd)} :
  IF bad_lexical_cast(str_what)
  THEN /\ apc' = "dead"
       /\ UNCHANGED <<rframe, read_armed, acur, server_response_, expression_to_eval_,
                      socket_, bps, bp_next, active_frame, engine_calls>>
  ELSE /\ active_frame' = lexical_cast(str_what)
       /\ engine_calls' = Called("SetActiveFrameIndex", "adapter")
       /\ command_done
       /\ UNCHANGED <<acur, server_response_, expression_to_eval_, socket_, bps, bp_next>>

\* a routed branch that calls the engine itself, on the adapter thread
evaluate_task_direct(kind, fn, arg, expr, id) ==
  /\ server_response_' = [fn |-> fn, arg |-> arg, id |-> id]
  /\ expression_to_eval_' = IF fn = "evalExpression" THEN expr ELSE expression_to_eval_
  /\ engine_calls' = Called(TaskOp([fn |-> fn]), "adapter")
  /\ acur' = kind
  /\ apc' = "store"
  /\ UNCHANGED <<rframe, read_armed, socket_, bps, bp_next, active_frame>>

\* lines 295-297, 303, 309, 313-316: store the task in server_response_ (and the
\* expression), without the mutex
evaluate_task(kind, fn, arg, expr, id) ==
  /\ server_response_' = [fn |-> fn, arg |-> arg, id |-> id]
  /\ expression_to_eval_' = IF fn = "evalExpression" THEN expr ELSE expression_to_eval_
  /\ acur' = kind
  /\ apc' = "store"
  /\ UNCHANGED <<rframe, read_armed, socket_, bps, bp_next, active_frame, engine_calls>>

\* lines 319-323: the command is logged
evaluate_unknown ==
  /\ command_done
  /\ UNCHANGED <<acur, server_response_, expression_to_eval_, socket_,
                 bps, bp_next, active_frame, engine_calls>>

\* Connection::evaluateCommand, called by handleCommand with the trimmed command:
\* the chain of patterns, lines 201-324, and the first step of the branch taken
evaluateCommand ==
  /\ fe = "wire" /\ Alive
  /\ apc = "eval"
  /\ ncmd' = ncmd + 1
  /\ \E cmd \in {trim_copy(Head(rframe))}, id \in {ncmd + 1} :
        IF regex_match(cmd, reg_brk) THEN evaluate_brk(cmd, id)
        ELSE IF regex_match(cmd, reg_brk_del) THEN evaluate_brk_del(cmd, id)
        ELSE IF regex_match(cmd, reg_start) \/ regex_match(cmd, reg_cont)
             THEN evaluate_resume("cont", "none")
        ELSE IF regex_match(cmd, reg_exit) THEN evaluate_resume("exit", "none")
        ELSE IF regex_match(cmd, reg_where) THEN evaluate_report("frames", "GetStackFrames", id)
        ELSE IF regex_match(cmd, reg_thr_lst) THEN evaluate_report("threads", "none", id)
        ELSE IF regex_match(cmd, reg_frame) THEN evaluate_frame(cmd)
        ELSE IF regex_match(cmd, reg_step) THEN evaluate_resume("step", "Step")
        ELSE IF regex_match(cmd, reg_finish) THEN evaluate_resume("finish", "StepOut")
        ELSE IF regex_match(cmd, reg_next) THEN evaluate_resume("next", "StepOver")
        ELSE IF regex_search(cmd, reg_var_inspect)
             THEN evaluate_task("watch", "evalExpression", 0, suffix(cmd, reg_var_inspect), id)
        ELSE IF regex_match(cmd, reg_var_local)
             THEN evaluate_task("local", "getLocalVariables", 0, <<>>, id)
        ELSE IF regex_match(cmd, reg_var_global)
             THEN evaluate_task("global", "getGlobalVariables", 0, <<>>, id)
        ELSE IF regex_match(cmd, reg_var_instance)
             THEN evaluate_task("instance", "getInstanceVariables",
                                sscanf_x(var_instance_what(cmd)), <<>>, id)
        ELSE evaluate_unknown
  /\ UNCHANGED <<xml_vars, fe, spurious_left, con_vars, ipc, server_wait_mutex_, server_can_continue_, reads_left, breaks_left,
                 cur_task, task_done, read_error, posted, process_server_response_,
                 variables_to_send_, variables_to_send_mutex_, stop_log>>

\* a Stop() that runs before the assignment of line 241
Stop_before_flag ==
  stop_log' = [called |-> TRUE, can_continue |-> server_can_continue_,
               at_break |-> ipc \in InWait]

\* line 245: server_->Stop(), after the assignment of line 241 and the notify_all
\* of line 242; what the engine finds: the flag, and whether the interpreter
\* thread is inside WaitForContinue
Stop ==
  stop_log' = [called |-> TRUE, can_continue |-> server_can_continue_',
               at_break |-> ipc \in InWait]

\* a signal without the lock_guard: the flag is set whoever holds the mutex
evaluate_signal_unlocked ==
  /\ fe = "wire" /\ Alive
  /\ apc = "lock"
  /\ server_can_continue_' = TRUE
  /\ ipc' = notify(ipc)
  /\ IF acur = "exit"
     THEN Stop /\ engine_calls' = Called("Stop", "adapter")
     ELSE UNCHANGED <<stop_log, engine_calls>>
  /\ acur' = "none"
  /\ command_done
  /\ UNCHANGED <<xml_vars, fe, spurious_left, con_vars, server_wait_mutex_, reads_left, breaks_left, ncmd, cur_task, task_done,
                 read_error, posted, server_response_, process_server_response_,
                 expression_to_eval_, variables_to_send_, variables_to_send_mutex_,
                 socket_, bps, bp_next, active_frame>>

\* lines 235-237, 240-245, 282-284, 287-289, 292-294: with the mutex, set the flag
\* and notify_all; the exit branch then calls Stop() before the lock_guard ends
evaluate_signal ==
  /\ fe = "wire" /\ Alive
  /\ apc = "lock" /\ server_wait_mutex_ = "free"
  /\ server_can_continue_' = TRUE
  /\ ipc' = notify(ipc)
  /\ IF acur = "exit"
     THEN Stop /\ engine_calls' = Called("Stop", "adapter")
     ELSE UNCHANGED <<stop_log, engine_calls>>
  /\ acur' = "none"
  /\ command_done
  /\ UNCHANGED <<xml_vars, fe, spurious_left, con_vars, server_wait_mutex_, reads_left, breaks_left, ncmd, cur_task, task_done,
                 read_error, posted, server_response_, process_server_response_,
                 expression_to_eval_, variables_to_send_, variables_to_send_mutex_,
                 socket_, bps, bp_next, active_frame>>

\* lines 298-299, 304-305, 310-311, 317-318: store the follow-up in
\* process_server_response_ and notify_all, without the mutex
evaluate_follow_up ==
  /\ fe = "wire" /\ Alive
  /\ apc = "store"
  /\ process_server_response_' = [kind |-> acur, id |-> ncmd]
  /\ ipc' = notify(ipc)
  /\ acur' = "none"
  /\ command_done
  /\ UNCHANGED <<xml_vars, fe, spurious_left, con_vars, server_wait_mutex_, server_can_continue_, reads_left, breaks_left, ncmd,
                 cur_task, task_done, read_error, posted, server_response_,
                 expression_to_eval_, variables_to_send_, variables_to_send_mutex_,
                 socket_, engine_vars>>

\* io_service_ runs the oldest posted handler: Connection::stopAtBreakpoint,
\* suspendAt (lines 326-344) or sendVariables (lines 357-371), up to its write
run_posted ==
  /\ fe = "wire" /\ Alive
  /\ apc = "idle" /\ posted # <<>>
  /\ LET h == Head(posted)
     IN IF h.h = "sendVariables"
        THEN /\ variables_to_send_mutex_ = "free"
             /\ variables_to_send_mutex_' = "adapter"
             /\ write_begin("variables", h.id, h.kind, variables_to_send_)
        ELSE /\ write_begin(h.h, 0, "none", NoVars)
             /\ UNCHANGED variables_to_send_mutex_
  /\ posted' = Tail(posted)
  /\ UNCHANGED <<xml_vars, fe, spurious_left, con_vars, ipc, server_wait_mutex_, server_can_continue_, reads_left, breaks_left,
                 ncmd, cur_task, task_done, acur, read_error, server_response_,
                 process_server_response_, expression_to_eval_, variables_to_send_,
                 engine_vars>>

\* the write returns; sendVariables then clears variables_to_send_ (line 372) and
\* releases its mutex; a command of a frame returns to handleCommand
write_end ==
  /\ fe = "wire" /\ Alive
  /\ apc = "write"
  /\ LET m == socket_[Len(socket_)]
     IN /\ socket_' = Append(socket_, [m EXCEPT !.part = "end"])
        /\ IF m.tag = "variables"
           THEN variables_to_send_' = NoVars /\ variables_to_send_mutex_' = "free"
           ELSE UNCHANGED <<variables_to_send_, variables_to_send_mutex_>>
  /\ IF rframe = <<>>
     THEN apc' = "idle" /\ UNCHANGED <<rframe, read_armed>>
     ELSE command_done
  /\ UNCHANGED <<xml_vars, fe, spurious_left, con_vars, ipc, server_wait_mutex_, server_can_continue_, reads_left, breaks_left,
                 ncmd, cur_task, task_done, acur, read_error, posted, server_response_,
                 process_server_response_, expression_to_eval_, engine_vars>>

\* ------------------------------------------------------------------------
\* ConsoleUI: the patterns of EvaluateCommand (lines 154-167, 206, 244-245)
\* ------------------------------------------------------------------------
\* "^\\s*b(?:reak)?$"
con_reg_brk_list == Cat(<<Bol, WS, Lit(<<"b">>), Opt(Lit(<<"r","e","a","k">>)), Eol>>)
\* "^\\s*b(?:reak)?\\s+(?:(.+):)?([^.:]+)$"
con_reg_brk == reg_brk
\* "^\\s*del(?:ete)?(?:\\s+(\\d+))?$"
con_reg_brk_del == reg_brk_del
\* "^\\s*c(?:ont)?$"
con_reg_cont == reg_cont
\* "^\\s*h(?:elp)?$"
con_reg_help == Cat(<<Bol, WS, Lit(<<"h">>), Opt(Lit(<<"e","l","p">>)), Eol>>)
\* "^\\s*w(?:here)?$"
con_reg_where == reg_where
\* "^\\s*f(?:rame)?$"
con_reg_frame == Cat(<<Bol, WS, Lit(<<"f">>), Opt(Lit(<<"r","a","m","e">>)), Eol>>)
\* "^\\s*s(?:tep)?\\s?"
con_reg_step == reg_step
\* "^\\s*n(?:ext)?$"
con_reg_next == reg_next
\* "^\\s*l(?:ist)?$"
con_reg_list == Cat(<<Bol, WS, Lit(<<"l">>), Opt(Lit(<<"i","s","t">>)), Eol>>)
\* "^\\s*up?$"
con_reg_up == Cat(<<Bol, WS, Lit(<<"u">>), Opt(Lit(<<"p">>)), Eol>>)
\* "^\\s*down?$"
con_reg_down == Cat(<<Bol, WS, Lit(<<"d","o","w">>), Opt(Lit(<<"n">>)), Eol>>)
\* "^\\s*p\\s+"
con_reg_eval == Cat(<<Bol, WS, Lit(<<"p">>), Plus(Chr(Space))>>)
\* "^\\s*v(ar)?\\s+"
con_reg_var == Cat(<<Bol, WS, Lit(<<"v">>), Opt(Lit(<<"a","r">>)), Plus(Chr(Space))>>)
\* "^o(ut)?$"
con_reg_out == Cat(<<Bol, Lit(<<"o">>), Opt(Lit(<<"u","t">>)), Eol>>)
\* "^g(lobal)?$"
con_reg_global == Cat(<<Bol, Lit(<<"g">>), Opt(Lit(<<"l","o","b","a","l">>)), Eol>>)
\* "^l(ocal)?$"
con_reg_local == Cat(<<Bol, Lit(<<"l">>), Opt(Lit(<<"o","c","a","l">>)), Eol>>)

\* the lines the user types at the console, as ConsoleInputBuffer::ReadLine gives them
ConsoleLines == {
  <<"b">>,                                          \* b
  <<"b"," ","/","x",".","r","b",":","1","0">>,      \* b /x.rb:10
  <<"b"," ","/","x",".","r","b",":","f","o","o">>,  \* b /x.rb:foo
  <<"d","e","l"," ","1">>,                          \* del 1
  <<"d","e","l">>,                                  \* del
  <<"c">>,                                          \* c
  <<"s">>,                                          \* s
  <<"s"," ","o","u","t">>,                          \* s out
  <<"s","t","o","p">>,                              \* stop
  <<"n">>,                                          \* n
  <<"h">>,                                          \* h
  <<"u","p">>,                                      \* up
  <<"d","o","w","n">>,                              \* down
  <<"w">>,                                          \* w
  <<"l">>,                                          \* l
  <<"p"," ","x">>,                                  \* p x
  <<"v"," ","l">>,                                  \* v l
  <<"v"," ","g">>,                                  \* v g
  <<"v"," ","x">>,                                  \* v x
  <<"z","z">>,                                      \* zz
  <<>> }                                            \* the empty line

\* ------------------------------------------------------------------------
\* ConsoleUI: output
\* ------------------------------------------------------------------------
\* IDebugServer::IsStopped(): the interpreter thread is inside the engine's break
IsStopped == ipc # "running"

\* ConsoleUI::WritePrompt, lines 106-110: the state the prompt shows
WritePrompt(stopped) == IF server_will_continue_ \/ ~stopped THEN "running" ELSE "stopped"

\* one message on std::cout: its first part; the write ends in a later step
Out(text, prompt, id, by, locked, part) ==
  [text |-> text, prompt |-> prompt, id |-> id, by |-> by, locked |-> locked, part |-> part]
cout_end == Append(cout, [cout[Len(cout)] EXCEPT !.part = "end"])

\* ------------------------------------------------------------------------
\* ConsoleUI: the interpreter thread
\* ------------------------------------------------------------------------
\* ConsoleUI::Break (both overloads), lines 321-328 and 332-338: with
\* console_output_mutex_, the banner, the current line and the prompt
ConsoleUI_Break ==
  /\ fe = "console" /\ Alive
  /\ ipc = "running" /\ breaks_left > 0
  /\ console_output_mutex_ = "free"
  /\ console_output_mutex_' = "interp"
  /\ cout' = Append(cout, Out("banner", WritePrompt(TRUE), 0, "interp", TRUE, "begin"))
  /\ ipc' = "banner"
  /\ breaks_left' = breaks_left - 1
  /\ UNCHANGED <<xml_vars, fe, spurious_left, apc, server_wait_mutex_, server_can_continue_, reads_left, ncmd,
                 cur_task, task_done, wire_vars, engine_vars, str_command, is_legal_command,
                 signal_server_can_continue, write_prompt, cnext, need_server_response_,
                 need_what_from_server_, need_id, expression_to_evaluate_,
                 server_will_continue_>>

\* the end of a message the interpreter thread writes: of the banner (line 328,
\* the lock ends), of a result (lines 308, 311, 314) or of the prompt (line 316)
ConsoleUI_interp_write_end ==
  /\ fe = "console" /\ Alive
  /\ ipc \in {"banner", "result_w", "prompt_w"}
  /\ cout' = cout_end
  /\ console_output_mutex_' = IF console_output_mutex_ = "interp" THEN "free"
                              ELSE console_output_mutex_
  /\ ipc' = CASE ipc = "banner" -> "enter"
              [] ipc = "result_w" -> "prompt"
              [] ipc = "prompt_w" -> "loop"
  /\ UNCHANGED <<xml_vars, fe, spurious_left, apc, server_wait_mutex_, server_can_continue_, reads_left, breaks_left,
                 ncmd, cur_task, task_done, wire_vars, engine_vars, str_command,
                 is_legal_command, signal_server_can_continue, write_prompt, cnext,
                 need_server_response_, need_what_from_server_, need_id,
                 expression_to_evaluate_, server_will_continue_>>

\* ConsoleUI::WaitForContinue, lines 299-300: lock the mutex, reset the flag
ConsoleUI_WaitForContinue_Enter ==
  /\ fe = "console" /\ Alive
  /\ ipc = "enter" /\ server_wait_mutex_ = "free"
  /\ server_wait_mutex_' = "interp"
  /\ server_can_continue_' = FALSE
  /\ ipc' = "loop"
  /\ UNCHANGED <<xml_vars, fe, spurious_left, apc, reads_left, breaks_left, ncmd, cur_task, task_done,
                 wire_vars, engine_vars, con_vars>>

\* lines 301-302 and 319: the loop test; with the flag clear, wait(lock), which
\* releases the mutex and blocks
ConsoleUI_WaitForContinue_Loop ==
  /\ fe = "console" /\ Alive
  /\ ipc = "loop"
  /\ server_wait_mutex_' = "free"
  /\ ipc' = IF server_can_continue_ THEN "running" ELSE "waiting"
  /\ UNCHANGED <<xml_vars, fe, spurious_left, apc, server_can_continue_, reads_left, breaks_left, ncmd, cur_task,
                 task_done, wire_vars, engine_vars, con_vars>>

\* lines 302-305, 309, 312: wait() returns with the mutex locked again; the test
\* of need_server_response_ and of need_what_from_server_
ConsoleUI_WaitForContinue_Woken ==
  /\ fe = "console" /\ Alive
  /\ ipc = "woken" /\ server_wait_mutex_ = "free"
  /\ server_wait_mutex_' = "interp"
  /\ IF need_server_response_
     THEN IF need_what_from_server_ # "NEED_NOTHING"
          THEN /\ ipc' = "task"
               /\ cur_task' = [fn |-> need_what_from_server_, arg |-> 0, id |-> need_id]
          ELSE /\ ipc' = "prompt"
               /\ UNCHANGED cur_task
     ELSE /\ ipc' = "loop"
          /\ UNCHANGED cur_task
  /\ UNCHANGED <<xml_vars, fe, spurious_left, apc, server_can_continue_, reads_left, breaks_left, ncmd,
                 task_done, wire_vars, engine_vars, con_vars>>

\* lines 306, 310, 313: the engine call of the request
ConsoleUI_Task ==
  /\ fe = "console" /\ Alive
  /\ ipc = "task"
  /\ engine_calls' = Called(CASE cur_task.fn = "NEED_EVAL" -> "EvaluateExpression"
                              [] cur_task.fn = "NEED_GLOBAL_VARS" -> "GetGlobalVariables"
                              [] cur_task.fn = "NEED_LOCAL_VARS" -> "GetLocalVariables",
                            "interp")
  /\ task_done' = task_done \cup {cur_task.id}
  /\ ipc' = "result"
  /\ UNCHANGED <<xml_vars, fe, spurious_left, apc, server_wait_mutex_, server_can_continue_, reads_left, breaks_left,
                 ncmd, cur_task, wire_vars, bps, bp_next, active_frame, stop_log, con_vars>>

\* lines 307-308 (WriteText with console_output_mutex_), 311 and 314
\* (WriteVariables without it)
ConsoleUI_Result ==
  /\ fe = "console" /\ Alive
  /\ ipc = "result"
  /\ IF cur_task.fn = "NEED_EVAL"
     THEN /\ console_output_mutex_ = "free"
          /\ console_output_mutex_' = "interp"
          /\ cout' = Append(cout, Out("value", "none", cur_task.id, "interp", TRUE, "begin"))
     ELSE /\ cout' = Append(cout, Out("variables", "none", cur_task.id, "interp",
                                      console_output_mutex_ = "interp", "begin"))
          /\ UNCHANGED console_output_mutex_
  /\ cur_task' = NoTask
  /\ ipc' = "result_w"
  /\ UNCHANGED <<xml_vars, fe, spurious_left, apc, server_wait_mutex_, server_can_continue_, reads_left, breaks_left,
                 ncmd, task_done, wire_vars, engine_vars, str_command, is_legal_command,
                 signal_server_can_continue, write_prompt, cnext, need_server_response_,
                 need_what_from_server_, need_id, expression_to_evaluate_,
                 server_will_continue_>>

\* line 316: WritePrompt, without console_output_mutex_
ConsoleUI_Prompt ==
  /\ fe = "console" /\ Alive
  /\ ipc = "prompt"
  /\ cout' = Append(cout, Out("prompt", WritePrompt(IsStopped), 0, "interp",
                              console_output_mutex_ = "interp", "begin"))
  /\ ipc' = "prompt_w"
  /\ UNCHANGED <<xml_vars, fe, spurious_left, apc, server_wait_mutex_, server_can_continue_, reads_left, breaks_left,
                 ncmd, cur_task, task_done, wire_vars, engine_vars, str_command,
                 is_legal_command, signal_server_can_continue, write_prompt, cnext,
                 need_server_response_, need_what_from_server_, need_id,
                 expression_to_evaluate_, server_will_continue_, console_output_mutex_>>

\* ------------------------------------------------------------------------
\* ConsoleUI: the adapter thread (ConsoleUI::ConsoleThreadFunc)
\* ------------------------------------------------------------------------
\* lines 136-138 and 146-152: a line is read and EvaluateCommand is entered; it
\* resets its locals and, without a mutex, the stored request
ConsoleUI_EvaluateCommand_Enter ==
  /\ fe = "console" /\ Alive
  /\ apc = "idle" /\ reads_left > 0
  /\ reads_left' = reads_left - 1
  /\ \E line \in ConsoleLines : str_command' = line
  /\ ncmd' = ncmd + 1
  /\ is_legal_command' = FALSE
  /\ signal_server_can_continue' = FALSE
  /\ write_prompt' = TRUE
  /\ need_server_response_' = FALSE
  /\ need_what_from_server_' = "NEED_NOTHING"
  /\ need_id' = 0
  /\ expression_to_evaluate_' = <<>>
  /\ apc' = "c_chain"
  /\ UNCHANGED <<xml_vars, fe, spurious_left, ipc, server_wait_mutex_, server_can_continue_, breaks_left, cur_task,
                 task_done, wire_vars, engine_vars, cnext, server_will_continue_,
                 console_output_mutex_, cout>>

\* what a branch of the chain leaves: the locals, the request, the engine call
\* and the text it writes to std::cout, without console_output_mutex_
con_branch(legal, signal, prompt, need, what, expr, op, text) ==
  /\ is_legal_command' = legal
  /\ signal_server_can_continue' = signal
  /\ write_prompt' = prompt
  /\ need_server_response_' = need
  /\ need_what_from_server_' = what
  /\ need_id' = IF need THEN ncmd ELSE need_id
  /\ expression_to_evaluate_' = expr
  /\ engine_calls' = IF op = "none" THEN engine_calls ELSE Called(op, "adapter")
  /\ IF text = "none"
     THEN /\ apc' = IF legal THEN "c_notify" ELSE "c_illegal"
          /\ UNCHANGED <<cout, cnext>>
     ELSE /\ cout' = Append(cout, Out(text, "none", ncmd, "adapter",
                                      console_output_mutex_ = "adapter", "begin"))
          /\ apc' = "c_write"
          /\ cnext' = IF legal THEN "c_notify" ELSE "c_illegal"

\* a branch that executes locally
con_local(op, text) ==
  con_branch(TRUE, FALSE, TRUE, FALSE, "NEED_NOTHING", <<>>, op, text)

\* lines 175-183: bad_lexical_cast is caught, the command stays illegal
con_brk_del(cmd) ==
  \E str_what \in {brk_del_what(cmd)} :
  IF bad_lexical_cast(str_what)
  THEN /\ con_branch(FALSE, FALSE, TRUE, FALSE, "NEED_NOTHING", <<>>, "none", "none")
       /\ UNCHANGED <<bps, bp_next, active_frame>>
  ELSE IF RemoveBreakPoint(lexical_cast(str_what))
  THEN /\ bps' = {bp \in bps : bp.index # lexical_cast(str_what)}
       /\ con_local("RemoveBreakPoint", "none")
       /\ UNCHANGED <<bp_next, active_frame>>
  ELSE /\ con_local("RemoveBreakPoint", "Cannot remove breakpoint")
       /\ UNCHANGED <<bps, bp_next, active_frame>>

\* lines 184-200
con_brk(cmd) ==
  \E what \in {brk_what(cmd)} :
  IF bad_lexical_cast(what.line)
  THEN /\ con_branch(FALSE, FALSE, TRUE, FALSE, "NEED_NOTHING", <<>>, "none", "none")
       /\ UNCHANGED <<bps, bp_next, active_frame>>
  ELSE \E ok \in BOOLEAN :
         /\ AddBreakPoint(what.file, lexical_cast(what.line), ok)
         /\ con_local("AddBreakPoint",
                      IF ok THEN "Added breakpoint" ELSE "Cannot add breakpoint")
         /\ UNCHANGED active_frame

\* IDebugServer::ShiftActiveFrame(up)
ShiftActiveFrame(up) ==
  active_frame' = IF up THEN active_frame + 1
                  ELSE IF active_frame > 0 THEN active_frame - 1 ELSE 0

\* ConsoleUI::EvaluateCommand, lines 169-263: the chain of patterns
ConsoleUI_EvaluateCommand_Chain ==
  /\ fe = "console" /\ Alive
  /\ apc = "c_chain"
  /\ \E cmd \in {str_command} :
     LET keep == UNCHANGED <<bps, bp_next, active_frame>>
     IN IF regex_match(cmd, con_reg_brk_list)
          THEN con_local("GetBreakPoints", "breakpoints") /\ keep
        ELSE IF regex_match(cmd, con_reg_brk_del) THEN con_brk_del(cmd)
        ELSE IF regex_match(cmd, con_reg_brk) THEN con_brk(cmd)
        ELSE IF regex_match(cmd, con_reg_cont)
          THEN con_branch(TRUE, TRUE, TRUE, FALSE, "NEED_NOTHING", <<>>, "none", "none") /\ keep
        ELSE IF regex_search(cmd, con_reg_step)
          THEN con_branch(TRUE, TRUE, TRUE, FALSE, "NEED_NOTHING", <<>>,
                          IF regex_match(suffix(cmd, con_reg_step), con_reg_out)
                          THEN "StepOut" ELSE "Step", "none") /\ keep
        ELSE IF regex_match(cmd, con_reg_next)
          THEN con_branch(TRUE, TRUE, TRUE, FALSE, "NEED_NOTHING", <<>>, "StepOver", "none") /\ keep
        ELSE IF regex_match(cmd, con_reg_help)
          THEN con_local("none", "help") /\ keep
        ELSE IF regex_match(cmd, con_reg_up)
          THEN /\ con_local("ShiftActiveFrame", "frames")
               /\ ShiftActiveFrame(TRUE) /\ UNCHANGED <<bps, bp_next>>
        ELSE IF regex_match(cmd, con_reg_down)
          THEN /\ con_local("ShiftActiveFrame", "frames")
               /\ ShiftActiveFrame(FALSE) /\ UNCHANGED <<bps, bp_next>>
        ELSE IF regex_match(cmd, con_reg_where) \/ regex_match(cmd, con_reg_frame)
          THEN con_local("GetStackFrames", "frames") /\ keep
        ELSE IF regex_match(cmd, con_reg_list)
          THEN con_local("GetCodeLines", "code") /\ keep
        ELSE IF regex_search(cmd, con_reg_eval)
          THEN con_branch(TRUE, FALSE, FALSE, TRUE, "NEED_EVAL",
                          suffix(cmd, con_reg_eval), "none", "none") /\ keep
        ELSE IF regex_search(cmd, con_reg_var)
          THEN (IF regex_match(suffix(cmd, con_reg_var), con_reg_global)
                THEN con_branch(TRUE, FALSE, FALSE, TRUE, "NEED_GLOBAL_VARS", <<>>, "none", "none")
                ELSE IF regex_match(suffix(cmd, con_reg_var), con_reg_local)
                THEN con_branch(TRUE, FALSE, FALSE, TRUE, "NEED_LOCAL_VARS", <<>>, "none", "none")
                ELSE con_branch(FALSE, FALSE, TRUE, FALSE, "NEED_NOTHING", <<>>, "none", "none"))
               /\ keep
        ELSE IF cmd # <<>>
          THEN con_branch(TRUE, FALSE, FALSE, TRUE, "NEED_NOTHING", cmd, "none", "none") /\ keep
        ELSE con_branch(FALSE, FALSE, TRUE, FALSE, "NEED_NOTHING", <<>>, "none", "none") /\ keep
  /\ UNCHANGED <<xml_vars, fe, spurious_left, ipc, server_wait_mutex_, server_can_continue_, reads_left, breaks_left,
                 ncmd, cur_task, task_done, wire_vars, stop_log, str_command,
                 server_will_continue_, console_output_mutex_>>

\* lines 265-267: WriteText("Illegal command"), without console_output_mutex_
ConsoleUI_EvaluateCommand_Illegal ==
  /\ fe = "console" /\ Alive
  /\ apc = "c_illegal"
  /\ cout' = Append(cout, Out("Illegal command", "none", ncmd, "adapter",
                              console_output_mutex_ = "adapter", "begin"))
  /\ apc' = "c_write"
  /\ cnext' = "c_notify"
  /\ UNCHANGED <<xml_vars, fe, spurious_left, ipc, server_wait_mutex_, server_can_continue_, reads_left, breaks_left,
                 ncmd, cur_task, task_done, wire_vars, engine_vars, str_command,
                 is_legal_command, signal_server_can_continue, write_prompt,
                 need_server_response_, need_what_from_server_, need_id,
                 expression_to_evaluate_, server_will_continue_, console_output_mutex_>>

\* a signal without the lock_guard of lines 274-276: the flag is set whoever
\* holds the mutex
ConsoleUI_EvaluateCommand_Notify_unlocked ==
  /\ fe = "console" /\ Alive
  /\ apc = "c_notify"
  /\ IF signal_server_can_continue
     THEN /\ server_can_continue_' = TRUE
          /\ server_will_continue_' = TRUE
          /\ ipc' = notify(ipc)
     ELSE /\ ipc' = IF need_server_response_ THEN notify(ipc) ELSE ipc
          /\ UNCHANGED <<server_can_continue_, server_will_continue_>>
  /\ apc' = IF write_prompt THEN "c_prompt" ELSE "c_return"
  /\ UNCHANGED <<xml_vars, fe, spurious_left, server_wait_mutex_, reads_left, breaks_left, ncmd, cur_task, task_done,
                 wire_vars, engine_vars, str_command, is_legal_command,
                 signal_server_can_continue, write_prompt, cnext, need_server_response_,
                 need_what_from_server_, need_id, expression_to_evaluate_,
                 console_output_mutex_, cout>>

\* lines 268-279: notify_one for a request; for a resumption, with the mutex, set
\* the flag, then notify_one and server_will_continue_ = true
ConsoleUI_EvaluateCommand_Notify ==
  /\ fe = "console" /\ Alive
  /\ apc = "c_notify"
  /\ IF signal_server_can_continue
     THEN /\ server_wait_mutex_ = "free"
          /\ server_can_continue_' = TRUE
          /\ server_will_continue_' = TRUE
          /\ ipc' = notify(ipc)
     ELSE /\ ipc' = IF need_server_response_ THEN notify(ipc) ELSE ipc
          /\ UNCHANGED <<server_can_continue_, server_will_continue_>>
  /\ apc' = IF write_prompt THEN "c_prompt" ELSE "c_return"
  /\ UNCHANGED <<xml_vars, fe, spurious_left, server_wait_mutex_, reads_left, breaks_left, ncmd, cur_task, task_done,
                 wire_vars, engine_vars, str_command, is_legal_command,
                 signal_server_can_continue, write_prompt, cnext, need_server_response_,
                 need_what_from_server_, need_id, expression_to_evaluate_,
                 console_output_mutex_, cout>>

\* lines 280-283: with console_output_mutex_, WritePrompt
ConsoleUI_EvaluateCommand_Prompt ==
  /\ fe = "console" /\ Alive
  /\ apc = "c_prompt"
  /\ console_output_mutex_ = "free"
  /\ console_output_mutex_' = "adapter"
  /\ cout' = Append(cout, Out("prompt", WritePrompt(IsStopped), ncmd, "adapter", TRUE, "begin"))
  /\ apc' = "c_write"
  /\ cnext' = "c_return"
  /\ UNCHANGED <<xml_vars, fe, spurious_left, ipc, server_wait_mutex_, server_can_continue_, reads_left, breaks_left,
                 ncmd, cur_task, task_done, wire_vars, engine_vars, str_command,
                 is_legal_command, signal_server_can_continue, write_prompt,
                 need_server_response_, need_what_from_server_, need_id,
                 expression_to_evaluate_, server_will_continue_>>

\* the end of a message the adapter thread writes; after the prompt the lock ends
ConsoleUI_adapter_write_end ==
  /\ fe = "console" /\ Alive
  /\ apc = "c_write"
  /\ cout' = cout_end
  /\ console_output_mutex_' = IF console_output_mutex_ = "adapter" THEN "free"
                              ELSE console_output_mutex_
  /\ apc' = cnext
  /\ cnext' = "none"
  /\ UNCHANGED <<xml_vars, fe, spurious_left, ipc, server_wait_mutex_, server_can_continue_, reads_left, breaks_left,
                 ncmd, cur_task, task_done, wire_vars, engine_vars, str_command,
                 is_legal_command, signal_server_can_continue, write_prompt,
                 need_server_response_, need_what_from_server_, need_id,
                 expression_to_evaluate_, server_will_continue_>>

\* lines 284-285: server_will_continue_ = false, the locals end with the call,
\* and the thread is back at the read of a line
ConsoleUI_EvaluateCommand_Return ==
  /\ fe = "console" /\ Alive
  /\ apc = "c_return"
  /\ server_will_continue_' = FALSE
  /\ apc' = "idle"
  /\ str_command' = <<>>
  /\ is_legal_command' = FALSE
  /\ signal_server_can_continue' = FALSE
  /\ write_prompt' = FALSE
  /\ UNCHANGED <<xml_vars, fe, spurious_left, ipc, server_wait_mutex_, server_can_continue_, reads_left, breaks_left,
                 ncmd, cur_task, task_done, wire_vars, engine_vars, cnext,
                 need_server_response_, need_what_from_server_, need_id,
                 expression_to_evaluate_, console_output_mutex_, cout>>

Next ==
  \/ RDIP_Break
  \/ RDIP_WaitForContinue_Enter
  \/ RDIP_WaitForContinue_Loop
  \/ RDIP_Task
  \/ RDIP_WaitForContinue_Post
  \/ RDIP_WaitForContinue_Clear
  \/ RDIP_WaitForContinue_Wait
  \/ RDIP_WaitForContinue_Woken
  \/ SpuriousWakeup
  \/ \E err \in BOOLEAN : handleCommand(err)
  \/ evaluateCommand
  \/ evaluate_signal
  \/ evaluate_follow_up
  \/ run_posted
  \/ write_end
  \/ ConsoleUI_Break
  \/ ConsoleUI_interp_write_end
  \/ ConsoleUI_WaitForContinue_Enter
  \/ ConsoleUI_WaitForContinue_Loop
  \/ ConsoleUI_WaitForContinue_Woken
  \/ ConsoleUI_Task
  \/ ConsoleUI_Result
  \/ ConsoleUI_Prompt
  \/ ConsoleUI_EvaluateCommand_Enter
  \/ ConsoleUI_EvaluateCommand_Chain
  \/ ConsoleUI_EvaluateCommand_Illegal
  \/ ConsoleUI_EvaluateCommand_Notify
  \/ ConsoleUI_EvaluateCommand_Prompt
  \/ ConsoleUI_adapter_write_end
  \/ ConsoleUI_EvaluateCommand_Return

Spec == Init /\ [][Next]_vars

\* ------------------------------------------------------------------------
\* encodeXml on its own
\* ------------------------------------------------------------------------
\* suspendAt (line 338), the <frames> reply (line 253) and sendVariables (lines
\* 363-364) call encodeXml with a string of the engine
XmlInit ==
  /\ ProgramInit /\ fe = "wire"
  /\ xml_str \in XmlInputs
  /\ xml_encoded = <<>>
  /\ xml_pc = "call"

\* the call returns
encodeXml_call ==
  /\ xml_pc = "call"
  /\ xml_encoded' = encodeXml(xml_str)
  /\ xml_pc' = "encoded"
  /\ UNCHANGED <<xml_str, fe, ipc, apc, server_wait_mutex_, server_can_continue_, reads_left,
                 breaks_left, spurious_left, ncmd, cur_task, task_done, wire_vars,
                 engine_vars, con_vars>>

XmlNext == encodeXml_call

XmlSpec == XmlInit /\ [][XmlNext]_vars

\* ------------------------------------------------------------------------
\* Scheduling
\* ------------------------------------------------------------------------
\* the steps of the interpreter thread inside Break / WaitForContinue
InterpreterStep ==
  \/ RDIP_WaitForContinue_Enter
  \/ RDIP_WaitForContinue_Loop
  \/ RDIP_Task
  \/ RDIP_WaitForContinue_Post
  \/ RDIP_WaitForContinue_Clear
  \/ RDIP_WaitForContinue_Wait
  \/ RDIP_WaitForContinue_Woken
  \/ ConsoleUI_interp_write_end
  \/ ConsoleUI_WaitForContinue_Enter
  \/ ConsoleUI_WaitForContinue_Loop
  \/ ConsoleUI_WaitForContinue_Woken
  \/ ConsoleUI_Task
  \/ ConsoleUI_Result
  \/ ConsoleUI_Prompt

\* the steps of the adapter thread after the pattern chain of a command, and the
\* handlers io_service_ holds
AdapterStep ==
  \/ evaluate_signal
  \/ evaluate_follow_up
  \/ run_posted
  \/ write_end
  \/ ConsoleUI_EvaluateCommand_Illegal
  \/ ConsoleUI_EvaluateCommand_Notify
  \/ ConsoleUI_EvaluateCommand_Prompt
  \/ ConsoleUI_adapter_write_end
  \/ ConsoleUI_EvaluateCommand_Return

\* the adapter thread is not inside the pattern chain of a command.
\* evaluateCommand and ConsoleUI_EvaluateCommand_Chain can be taken whenever the
\* thread is at "eval" / "c_chain", whatever the command, and a frame holds
\* finitely many commands: their weak fairness is that the thread is not there
\* forever.
PastChain == apc \notin {"eval", "c_chain"}

\* both threads are scheduled while they can run. Nothing obliges the script to
\* reach a break, the controller to send a frame or a line, or the condition
\* variable to wake spuriously.
FairSpec ==
  Spec /\ WF_vars(InterpreterStep) /\ WF_vars(AdapterStep) /\ []<>PastChain

\* ------------------------------------------------------------------------
\* Properties
\* ------------------------------------------------------------------------
\* the commands one frame holds at most, and the ids commands can get
MaxFrameLen == SetMax({Len(split(frame)) : frame \in WireFrames})
Ids == 1..(MaxReads * MaxFrameLen)

\* the interpreter thread is inside WaitForContinue and a resumption command has
\* set the flag
Resumed == ipc \in InWait /\ server_can_continue_

\* C1: rendezvous liveness, both front-ends. Once the interpreter thread is inside
\* WaitForContinue and a resumption command has set server_can_continue_ and
\* notified, the interpreter thread returns from WaitForContinue, as long as the
\* process lives.
C1_RendezvousLiveness == Resumed ~> (ipc = "running" \/ ~Alive)

\* the interpreter thread was blocked in wait(), a resumption woke it, and it is
\* about to lock the mutex again
C1_Witness == server_can_continue_ /\ ipc = "woken" /\ spurious_left = MaxSpurious

\* C2: task exclusion. While a task is stored in server_response_, no later
\* command replaces it, and no later command replaces the follow-up stored for it.
C2_TaskExclusion ==
  [][ (fe = "wire" /\ server_response_ # NoTask) =>
        /\ server_response_' \in {server_response_, NoTask}
        /\ \/ process_server_response_' = process_server_response_
           \/ process_server_response_'.id = server_response_.id ]_vars

\* command i is dispatched: its task and its follow-up are stored while the
\* interpreter thread is inside WaitForContinue and not resumed
Dispatched(i) ==
  /\ fe = "wire"
  /\ server_response_.id = i /\ process_server_response_.id = i
  /\ ipc \in InWait /\ ~server_can_continue_
\* the <variables> reply of command i is on the socket
Replied(i) ==
  \E k \in 1..Len(socket_) :
    socket_[k].tag = "variables" /\ socket_[k].id = i /\ socket_[k].part = "end"

\* C3: eventual reply. A routed wire command dispatched while the interpreter
\* thread is stopped at a break gets its <variables> reply written to the socket,
\* unless the controller sends a further command or the process ends.
C3_EventualReply ==
  \A i \in Ids : Dispatched(i) ~> (Replied(i) \/ ncmd > i \/ ~Alive)

\* C4: reply after task. A <variables> reply of a command is on the socket only
\* if the interpreter-thread task of that command has completed.
C4_ReplyAfterTask ==
  \A k \in 1..Len(socket_) :
    socket_[k].tag = "variables" => socket_[k].id \in task_done

\* C5: order preservation. The responses to commands are on the socket in the
\* order the commands were dispatched.
C5_OrderPreserved ==
  \A j, k \in 1..Len(socket_) :
    (j < k /\ socket_[j].id > 0 /\ socket_[k].id > 0) => socket_[j].id <= socket_[k].id

\* no task is stored, running, or waiting for its follow-up to be flushed
TaskIdle ==
  /\ server_response_ = NoTask
  /\ cur_task = NoTask
  /\ \A k \in 1..Len(posted) : posted[k].h # "sendVariables"

\* C6: resumption gating. On the wire, with the interpreter thread inside
\* WaitForContinue, server_can_continue_ becomes true only when no interpreter
\* task is outstanding.
C6_ResumptionGating ==
  [][ (fe = "wire" /\ ipc \in InWait /\ ~server_can_continue_ /\ server_can_continue_')
        => TaskIdle ]_vars

\* C7: a transport error releases the interpreter. When a read completes with an
\* error while the interpreter thread is inside WaitForContinue, the read is not
\* armed again and server_can_continue_ is set.
C7_TransportErrorReleases ==
  [][ (~read_error /\ read_error' /\ ipc \in InWait) =>
        (~read_armed' /\ server_can_continue_') ]_vars

\* C8: wire exit. Stop() is called only after server_can_continue_ is set, and an
\* interpreter thread that was inside WaitForContinue at that moment returns from
\* it, as long as the process lives.
C8_WireExit ==
  /\ [](stop_log.called => stop_log.can_continue)
  /\ (stop_log.called /\ stop_log.at_break) ~> (ipc = "running" \/ ~Alive)

\* exit has released an interpreter thread that was stopped at a break
C8_Witness == stop_log.called /\ stop_log.at_break /\ ipc = "running"

\* C9: wire output atomicity. Every part of every message on the socket is
\* written by the adapter thread, and the two parts of a message are adjacent.
C9_WireAtomicity ==
  \A k \in 1..Len(socket_) :
    /\ socket_[k].by = "adapter"
    /\ socket_[k].part = "begin" =>
         (k = Len(socket_) \/ socket_[k + 1] = [socket_[k] EXCEPT !.part = "end"])
    /\ socket_[k].part = "end" =>
         (k > 1 /\ socket_[k - 1] = [socket_[k] EXCEPT !.part = "begin"])

\* a stop notification and a reply with variables are both on the socket, and the
\* adapter thread is in a write while the interpreter thread is inside Break
C9_Witness ==
  /\ \E k \in 1..Len(socket_) : socket_[k].tag \in {"stopAtBreakpoint", "suspendAt"}
  /\ \E k \in 1..Len(socket_) : socket_[k].tag = "variables" /\ socket_[k].part = "end"
  /\ apc = "write" /\ ipc \in {"enter", "loop", "wait"}

\* a wire command whose numeric argument is missing, not a number or too large
MalformedWire(cmd) ==
  \/ regex_match(cmd, reg_brk) /\ bad_lexical_cast(brk_what(cmd).line)
  \/ regex_match(cmd, reg_brk_del) /\ bad_lexical_cast(brk_del_what(cmd))
  \/ regex_match(cmd, reg_frame) /\ bad_lexical_cast(frame_what(cmd))
\* the same for a console line
MalformedConsole(cmd) ==
  \/ regex_match(cmd, con_reg_brk_del) /\ bad_lexical_cast(brk_del_what(cmd))
  \/ /\ ~regex_match(cmd, con_reg_brk_list) /\ ~regex_match(cmd, con_reg_brk_del)
     /\ regex_match(cmd, con_reg_brk) /\ bad_lexical_cast(brk_what(cmd).line)

\* C10: malformed numeric arguments are rejected without effect. The adapter
\* thread's evaluation of such a command calls no engine operation, leaves the
\* breakpoints and the active frame as they are and lives on; on the wire nothing
\* is written, on the console the command goes on to "Illegal command".
C10_MalformedRejected ==
  [][ /\ (fe = "wire" /\ apc = "eval" /\ ncmd' # ncmd
            /\ MalformedWire(trim_copy(Head(rframe)))) =>
          /\ engine_calls' = engine_calls /\ bps' = bps /\ active_frame' = active_frame
          /\ socket_' = socket_ /\ apc' # "dead"
      /\ (fe = "console" /\ apc = "c_chain" /\ apc' # apc
            /\ MalformedConsole(str_command)) =>
          /\ engine_calls' = engine_calls /\ bps' = bps /\ active_frame' = active_frame
          /\ apc' = "c_illegal" ]_vars

\* a console line that reaches the last branch of the chain (lines 256-262): it
\* is not empty and none of the patterns of lines 154-167 accepts it
ConFallthrough(cmd) ==
  /\ cmd # <<>>
  /\ ~regex_match(cmd, con_reg_brk_list) /\ ~regex_match(cmd, con_reg_brk_del)
  /\ ~regex_match(cmd, con_reg_brk) /\ ~regex_match(cmd, con_reg_cont)
  /\ ~regex_search(cmd, con_reg_step) /\ ~regex_match(cmd, con_reg_next)
  /\ ~regex_match(cmd, con_reg_help) /\ ~regex_match(cmd, con_reg_up)
  /\ ~regex_match(cmd, con_reg_down) /\ ~regex_match(cmd, con_reg_where)
  /\ ~regex_match(cmd, con_reg_frame) /\ ~regex_match(cmd, con_reg_list)
  /\ ~regex_search(cmd, con_reg_eval) /\ ~regex_search(cmd, con_reg_var)

\* C11: console eval fallthrough. When the interpreter thread, stopped at a
\* break, wakes in WaitForContinue and finds the request stored for a line that
\* matches no command, its next step is the call of EvaluateExpression with that
\* line (the result and the prompt follow that call).
C11_EvalFallthrough ==
  [][ (/\ fe = "console" /\ ipc = "woken" /\ ipc' # ipc
       /\ need_server_response_ /\ ConFallthrough(expression_to_evaluate_))
        => (ipc' = "task" /\ cur_task'.fn = "NEED_EVAL") ]_vars

\* a step that begins the write of a prompt by line 282 or line 316
NewPrompt ==
  /\ Len(cout') = Len(cout) + 1
  /\ cout'[Len(cout')].text = "prompt"

\* a resumption command has set server_can_continue_ and the interpreter thread
\* has not begun its next Break
AfterResumption == server_can_continue_ /\ ipc \in InWait \cup {"running"}

\* C12: console prompt state. A prompt written after a resumption command and
\* before the next break reads "running", whether it is the prompt of that
\* command or of a later one; a prompt reads "stopped" only if the engine is
\* stopped and the command that writes it did not request resumption.
C12_PromptState ==
  [][ (fe = "console" /\ NewPrompt) =>
        LET m == cout'[Len(cout')]
        IN /\ AfterResumption => m.prompt = "running"
           /\ m.prompt = "stopped" =>
                (IsStopped /\ (m.by = "adapter" => ~signal_server_can_continue)) ]_vars

\* C13: escape round-trip. What encodeXml returns for a string decodes, entity by
\* entity, to that string, and holds no raw quote, "<", ">" or apostrophe and no
\* "&" that does not start one of the five entities.
C13_EscapeRoundTrip ==
  xml_pc = "encoded" =>
    /\ XmlDecode(xml_encoded) = xml_str
    /\ XmlWellFormed(xml_encoded)

\* encodeXml has returned for a string with "&" after a character whose entity
\* brings in a "&" of its own
C13_Witness ==
  /\ xml_pc = "encoded"
  /\ xml_str = <<"<", "&", "'">>
  /\ xml_encoded = lt \o amp \o apos

\* a step in which the interpreter thread executes the task it holds
RunsTask == ipc = "task" /\ ipc' # ipc
\* a step that begins the write of the result of command i: the <variables>
\* reply on the wire, the value or the variables on the console
EmitsResult(i) ==
  \/ /\ fe = "wire" /\ Len(socket_') = Len(socket_) + 1
     /\ socket_'[Len(socket_')].tag = "variables" /\ socket_'[Len(socket_')].id = i
     /\ socket_'[Len(socket_')].part = "begin"
  \/ /\ fe = "console" /\ Len(cout') = Len(cout) + 1
     /\ cout'[Len(cout')].text \in {"value", "variables"} /\ cout'[Len(cout')].id = i
     /\ cout'[Len(cout')].part = "begin"
\* the result of command i is in the output, or its write has begun
Emitted(i) ==
  \/ \E k \in 1..Len(socket_) : socket_[k].tag = "variables" /\ socket_[k].id = i
  \/ \E k \in 1..Len(cout) : cout[k].text \in {"value", "variables"} /\ cout[k].id = i

\* C14: at-most-once task execution, both front-ends. The interpreter thread
\* executes the task of a command only if it has not executed it before, and the
\* result of a command is written only if it has not been written before.
C14_AtMostOnce ==
  [][ /\ RunsTask => cur_task.id \notin task_done
      /\ \A i \in 1..ncmd : EmitsResult(i) => ~Emitted(i) ]_vars

\* a step in which the interpreter thread, inside WaitForContinue, begins the
\* write of a result or of a prompt (console) or posts a follow-up (wire)
InterpEmits ==
  \/ /\ fe = "console" /\ Len(cout') = Len(cout) + 1
     /\ cout'[Len(cout')].by = "interp" /\ cout'[Len(cout')].text # "banner"
  \/ /\ fe = "wire" /\ ipc = "post" /\ posted' # posted

\* C15: no task on the resuming wake, both front-ends. With server_can_continue_
\* true, the interpreter thread executes no task and emits no result and no
\* prompt: the wake that makes WaitForContinue return does nothing else.
C15_NoTaskOnResumingWake ==
  [][ (RunsTask \/ InterpEmits) => ~server_can_continue_ ]_vars

\* C16: console output sink discipline. Every message on std::cout is written by
\* a thread that holds console_output_mutex_, and no message is written while
\* the write of another one is in progress: the two parts of a message are
\* adjacent.
C16_ConsoleSink ==
  \A k \in 1..Len(cout) :
    /\ cout[k].locked
    /\ cout[k].part = "begin" =>
         (k = Len(cout) \/ cout[k + 1] = [cout[k] EXCEPT !.part = "end"])

\* the engine operations that must run on the interpreter thread
InterpreterOnly == {"GetLocalVariables", "GetGlobalVariables", "GetInstanceVariables",
                    "EvaluateExpression"}

\* C17: thread affinity, both front-ends. Every call of GetLocalVariables,
\* GetGlobalVariables, GetInstanceVariables and EvaluateExpression is made by the
\* interpreter thread, from inside WaitForContinue.
C17_ThreadAffinity ==
  [][ \A c \in engine_calls' \ engine_calls :
        c[1] \in InterpreterOnly => (c[2] = "interp" /\ ipc \in InWait) ]_vars

\* on the wire the interpreter thread has collected the locals for a command of a
\* frame whose other command the adapter thread has executed itself
C17_Witness ==
  /\ fe = "wire"
  /\ <<"GetLocalVariables", "interp">> \in engine_calls
  /\ <<"GetStackFrames", "adapter">> \in engine_calls

\* C18: transition discipline of server_can_continue_, both front-ends. The flag
\* goes from false to true only in a step of the adapter thread's signal, taken
\* while the interpreter thread does not hold server_wait_mutex_, and that step
\* notifies: an interpreter thread blocked in wait() is woken. The flag goes from
\* true to false only where the interpreter thread enters WaitForContinue and
\* locks the mutex.
C18_FlagDiscipline ==
  [][ /\ (~server_can_continue_ /\ server_can_continue_') =>
            /\ apc \in {"lock", "c_notify"} /\ apc' # apc
            /\ server_wait_mutex_ # "interp"
            /\ ipc = "waiting" => ipc' = "woken"
      /\ (server_can_continue_ /\ ~server_can_continue_') =>
            /\ ipc = "enter" /\ ipc' = "loop"
            /\ server_wait_mutex_' = "interp" ]_vars

\* the interpreter thread has returned from one WaitForContinue, the flag that
\* released it was reset at the entry of the next one, and it holds the mutex
C18_Witness ==
  /\ breaks_left = MaxBreaks - 2
  /\ ipc = "loop" /\ server_wait_mutex_ = "interp"
  /\ ~server_can_continue_

\* the grammar of the stepping commands: "s" or "step" with nothing after it is
\* Step-in, "s[tep] o[ut]" is Step-out
GrammarStepIn == Cat(<<Bol, WS, Lit(<<"s">>), Opt(Lit(<<"t","e","p">>)), Eol>>)
GrammarStepOut == Cat(<<Bol, WS, Lit(<<"s">>), Opt(Lit(<<"t","e","p">>)), Plus(Chr(Space)),
                        Lit(<<"o">>), Opt(Lit(<<"u","t">>)), Eol>>)
\* the lines that are resumption commands of the console
GrammarResumes(cmd) ==
  \/ regex_match(cmd, con_reg_cont) \/ regex_match(cmd, con_reg_next)
  \/ regex_match(cmd, GrammarStepIn) \/ regex_match(cmd, GrammarStepOut)

\* C19: parser uniqueness on the console, stepping commands. The pattern chain
\* dispatches a line as Step-in only if it is "s" or "step", as Step-out only if
\* it is "s[tep] o[ut]", and requests resumption only for a resumption command:
\* a line that merely begins with "s" calls neither Step() nor StepOut() and
\* does not set server_can_continue_.
C19_ParserUniqueness ==
  [][ (fe = "console" /\ apc = "c_chain" /\ apc' # apc) =>
        /\ <<"Step", "adapter">> \in (engine_calls' \ engine_calls)
             => regex_match(str_command, GrammarStepIn)
        /\ <<"StepOut", "adapter">> \in (engine_calls' \ engine_calls)
             => regex_match(str_command, GrammarStepOut)
        /\ signal_server_can_continue' => GrammarResumes(str_command) ]_vars

\* the stop notification of the break the interpreter thread is in has reached
\* the controller: on the wire every break so far has its whole notification on
\* the socket, on the console the banner and its prompt are written before
\* WaitForContinue is called
StopNotified ==
  IF fe = "wire"
  THEN Cardinality({k \in 1..Len(socket_) :
                      /\ socket_[k].tag \in {"stopAtBreakpoint", "suspendAt"}
                      /\ socket_[k].part = "end"}) = MaxBreaks - breaks_left
  ELSE TRUE
\* the adapter thread is in a resumption command, before its signal
AboutToSignal ==
  \/ fe = "wire" /\ apc = "lock"
  \/ fe = "console" /\ apc = "c_notify" /\ signal_server_can_continue

\* C20: no lost resumption, both front-ends. A resumption command whose signal
\* comes after the stop notification of a break, while the interpreter thread
\* has called WaitForContinue but not yet reset the flag, releases the
\* interpreter thread from that break.
C20_NoLostResumption ==
  (ipc = "enter" /\ StopNotified /\ AboutToSignal) ~> (ipc = "running" \/ ~Alive)

\* C21: task / follow-up pairing on the wire. Every <variables> reply is written
\* by the follow-up of the command whose task produced the variables it carries
\* (so its kind is that command's), and the interpreter thread erases a stored
\* task only after it has run it.
C21_TaskFollowUpPairing ==
  [][ fe = "wire" =>
        /\ \A k \in 1..Len(socket_') :
             socket_'[k].tag = "variables" => socket_'[k].vars.id = socket_'[k].id
        /\ (ipc = "clear" /\ ipc' = "wait") => server_response_.id \in task_done ]_vars

\* the stop notifications that are written, being written or queued in
\* io_service_
StopsIssued ==
  Cardinality({k \in 1..Len(socket_) :
                 /\ socket_[k].tag \in {"stopAtBreakpoint", "suspendAt"}
                 /\ socket_[k].part = "begin"})
  + Cardinality({k \in 1..Len(posted) : posted[k].h \in {"stopAtBreakpoint", "suspendAt"}})

\* C22: carry-over of an unexecuted wire task. A task that is stored while the
\* interpreter thread is outside WaitForContinue stays stored and is not run
\* there; inside WaitForContinue, with the flag clear, the interpreter thread
\* runs a stored task before it waits; and when it posts the follow-up, the stop
\* notification of its break is already written or ahead of it in the queue.
C22_CarryOver ==
  [][ fe = "wire" =>
        /\ (ipc \in {"running", "enter"} /\ server_response_ # NoTask) =>
             (server_response_' = server_response_ /\ ipc' # "task"
              /\ task_done' = task_done)
        /\ (ipc = "loop" /\ ~server_can_continue_ /\ server_response_ # NoTask) =>
             ipc' \in {"loop", "task"}
        /\ (ipc = "post" /\ posted' # posted) =>
             StopsIssued = MaxBreaks - breaks_left ]_vars

\* a resumption or exit command has been parsed and is about to set the flag
ResumptionPending ==
  \/ fe = "wire" /\ apc = "lock"
  \/ fe = "console" /\ apc = "c_notify" /\ signal_server_can_continue

\* C23: task execution excludes resumption. While the interpreter thread runs a
\* task it holds the rendezvous mutex, the flag does not change from false to
\* true, and the interpreter thread does not leave WaitForContinue: a resumption
\* or exit command parsed meanwhile sets the flag only after the task returned.
C23_TaskExcludesResumption ==
  [][ ipc = "task" =>
        /\ server_wait_mutex_ = "interp"
        /\ ~(~server_can_continue_ /\ server_can_continue_')
        /\ ipc' # "running"
        /\ (ResumptionPending /\ apc' # apc) => FALSE ]_vars

\* a task is running and a resumption command waits for the mutex
C23_Witness == ipc = "task" /\ ~server_can_continue_ /\ ResumptionPending

\* C24: no premature resumption. The interpreter thread leaves WaitForContinue
\* only from the loop test with the flag set; entering WaitForContinue leaves the
\* flag clear, whatever was processed while the interpreter was running; the
\* flag is set only by the signal of a resumption or exit command, never by a
\* task request, a notification or a wake-up; and inside WaitForContinue it is
\* set only while the interpreter thread is blocked in wait().
C24_NoPrematureResumption ==
  [][ /\ (ipc # "running" /\ ipc' = "running") => (ipc = "loop" /\ server_can_continue_)
      /\ (ipc = "enter" /\ ipc' # "enter") => (ipc' = "loop" /\ ~server_can_continue_')
      /\ (~server_can_continue_ /\ server_can_continue_') =>
           /\ ResumptionPending /\ apc' # apc
           /\ ipc \notin InWait \ {"waiting", "woken"} ]_vars

\* the interpreter thread has returned from a break in which it blocked and was
\* woken spuriously
C24_Witness ==
  /\ ipc = "running" /\ server_can_continue_
  /\ breaks_left < MaxBreaks /\ spurious_left < MaxSpurious

====
